---------------------------- MODULE Spec2Model ----------------------------
(***************************************************************************)
(* Monte Carlo Tree Search of mcts_modified.py: traverse_nodes,            *)
(* expand_leaf, rollout, heuristic_action_choice, backpropagate, ucb,      *)
(* get_best_action, is_win and the loop of think.                          *)
(*                                                                         *)
(* The Board (p2_t3) and MCTSNode (mcts_node) are imported by the source   *)
(* and are modelled from their contract: the board is a row of BoardCells  *)
(* cells on which two players alternately mark an empty cell; two adjacent *)
(* marks of one player win, a full row without a winner is a draw.         *)
(***************************************************************************)
EXTENDS Integers, Sequences, FiniteSets

(* Bound of the model: think's loop is cut after MaxIter iterations. *)
MaxIter == 8

(* ------------------------------ Board -------------------------------- *)

BoardCells == 4

Cells == 1..BoardCells

Players == {1, 2}

EmptyBoard == [c \in Cells |-> 0]

Marks(state) == {c \in Cells : state[c] # 0}

(* current_player: player 1 moves on an even number of marks *)
current_player(state) == IF Cardinality(Marks(state)) % 2 = 0 THEN 1 ELSE 2

HasRow(state, p) == \E c \in Cells : c + 1 \in Cells /\ state[c] = p /\ state[c + 1] = p

(* points_values: None (here <<>>) for a non-terminal state, else the score
   of each player in half-points: win 2 (one point), loss 0, draw 1 each *)
points_values(state) ==
    IF HasRow(state, 1) THEN <<2, 0>>
    ELSE IF HasRow(state, 2) THEN <<0, 2>>
    ELSE IF Marks(state) = Cells THEN <<1, 1>>
    ELSE <<>>

is_ended(state) == points_values(state) # <<>>

RECURSIVE AscendingFrom(_, _)
AscendingFrom(S, c) ==
    IF c > BoardCells THEN <<>>
    ELSE IF c \in S THEN <<c>> \o AscendingFrom(S, c + 1)
    ELSE AscendingFrom(S, c + 1)

(* legal_actions: the empty cells, in ascending order *)
legal_actions(state) == AscendingFrom(Cells \ Marks(state), 1)

next_state(state, action) == [state EXCEPT ![action] = current_player(state)]

Range(s) == {s[i] : i \in DOMAIN s}

Successors(state) ==
    IF is_ended(state) THEN {}
    ELSE {next_state(state, a) : a \in Range(legal_actions(state))}

RECURSIVE ReachableFrom(_, _)
ReachableFrom(frontier, seen) ==
    LET fresh == UNION {Successors(s) : s \in frontier} \ seen
    IN  IF fresh = {} THEN seen ELSE ReachableFrom(fresh, seen \cup fresh)

(* every position of a game played from the empty board *)
Positions == ReachableFrom({EmptyBoard}, {EmptyBoard})

(* ----------------------------- MCTSNode ------------------------------ *)

(* Nodes are named by the actions leading to them from the root. *)
RootId == <<>>

NoNode == <<0>>

NoAction == 0

MCTSNode(parent, parent_action, action_list) ==
    [parent |-> parent, parent_action |-> parent_action,
     child_nodes |-> <<>>, untried_actions |-> action_list,
     wins |-> 0, visits |-> 0]

(* child_nodes is a dict: a sequence of <<action, child>> in insertion order *)
Keys(d) == {d[i][1] : i \in DOMAIN d}

Values(d) == [i \in DOMAIN d |-> d[i][2]]

DictSet(d, k, v) ==
    IF k \in Keys(d)
    THEN [i \in DOMAIN d |-> IF d[i][1] = k THEN <<k, v>> ELSE d[i]]
    ELSE Append(d, <<k, v>>)

(* a remove that is never done *)
ListRemove_kept(l, x) == l

(* list.remove: drops the first occurrence *)
ListRemove(l, x) ==
    LET i == CHOOSE j \in DOMAIN l : l[j] = x /\ \A k \in 1..(j - 1) : l[k] # x
    IN  SubSeq(l, 1, i - 1) \o SubSeq(l, i + 1, Len(l))

(* max(iterable, key): the first element whose key is the largest *)
MaxIndex(keys) ==
    CHOOSE i \in DOMAIN keys :
        /\ \A j \in DOMAIN keys : keys[j] <= keys[i]
        /\ \A j \in 1..(i - 1) : keys[j] < keys[i]

(* ------------------------------- ucb -------------------------------- *)

(* Scores are fixed-point numbers in units of 1/Scale. *)
Scale == 10000

Infinity == 1000000000

explore_faction == 2

(* log(n) in millionths, n = 1..64 *)
LogMillionths ==
    <<0, 693147, 1098612, 1386294, 1609438, 1791759, 1945910, 2079442,
      2197225, 2302585, 2397895, 2484907, 2564949, 2639057, 2708050, 2772589,
      2833213, 2890372, 2944439, 2995732, 3044522, 3091042, 3135494, 3178054,
      3218876, 3258097, 3295837, 3332205, 3367296, 3401197, 3433987, 3465736,
      3496508, 3526361, 3555348, 3583519, 3610918, 3637586, 3663562, 3688879,
      3713572, 3737670, 3761200, 3784190, 3806662, 3828641, 3850148, 3871201,
      3891820, 3912023, 3931826, 3951244, 3970292, 3988984, 4007333, 4025352,
      4043051, 4060443, 4077537, 4094345, 4110874, 4127134, 4143135, 4158883>>

RECURSIVE IsqrtIn(_, _, _)
IsqrtIn(x, lo, hi) ==
    IF hi - lo <= 1 THEN lo
    ELSE LET mid == (lo + hi) \div 2
         IN  IF mid * mid <= x THEN IsqrtIn(x, mid, hi) ELSE IsqrtIn(x, lo, mid)

(* sqrt(log(parent_visits) / visits), in units of 1/Scale *)
SqrtLogRatio(parent_visits, visits) ==
    IsqrtIn((LogMillionths[parent_visits] * 100) \div visits, 0, 20000)

(* a never-visited node scored 0 *)
ucb_unvisited_zero(t, n, is_opponent) ==
    IF t[n].visits = 0 THEN 0
    ELSE LET win_rate == (t[n].wins * Scale) \div t[n].visits
             rate == IF is_opponent THEN Scale - win_rate ELSE win_rate
         IN  rate + explore_faction * SqrtLogRatio(t[t[n].parent].visits, t[n].visits)

ucb(t, n, is_opponent) ==
    IF t[n].visits = 0 THEN Infinity
    ELSE LET win_rate == (t[n].wins * Scale) \div t[n].visits
             rate == IF is_opponent THEN Scale - win_rate ELSE win_rate
         IN  rate + explore_faction * SqrtLogRatio(t[t[n].parent].visits, t[n].visits)

(* The fixed-point scores are within 4 units of Scale times the scores of the
   source, so they order two children as the source does when the children
   have the same statistics or scores at least 5 units apart. *)
ScoresDecided(t, n, is_opponent) ==
    \A c, d \in Range(Values(t[n].child_nodes)) :
        \/ t[c].wins = t[d].wins /\ t[c].visits = t[d].visits
        \/ ucb(t, c, is_opponent) - ucb(t, d, is_opponent) >= 5
        \/ ucb(t, d, is_opponent) - ucb(t, c, is_opponent) >= 5

(* ------------------------- the search steps -------------------------- *)

(* traverse_nodes, line 28: the child of the largest ucb *)
select_child(t, n, is_opponent) ==
    LET children == Values(t[n].child_nodes)
    IN  children[MaxIndex([i \in DOMAIN children |-> ucb(t, children[i], is_opponent)])]

(* an if for the while: one descent, from the root only *)
traverse_continues_once(t, n, state) ==
    ~is_ended(state) /\ t[n].untried_actions = <<>> /\ n = RootId

(* traverse_nodes, line 25: the loop goes on *)
traverse_continues(t, n, state) ==
    ~is_ended(state) /\ t[n].untried_actions = <<>>

ChildId(n, action) == Append(n, action)

(* a child given the legal actions of its parent's state *)
expand_leaf_actions_of_parent(t, n, state, action) ==
    LET child == ChildId(n, action)
        child_node == MCTSNode(n, action, legal_actions(state))
    IN  [m \in DOMAIN t \cup {child} |->
            IF m = child THEN child_node
            ELSE IF m = n
                 THEN [t[n] EXCEPT !.child_nodes = DictSet(@, action, child),
                                   !.untried_actions = ListRemove(@, action)]
                 ELSE t[m]]

(* expand_leaf with choice(node.untried_actions) = action: the tree after it *)
expand_leaf(t, n, state, action) ==
    LET child == ChildId(n, action)
        child_node == MCTSNode(n, action, legal_actions(next_state(state, action)))
    IN  [m \in DOMAIN t \cup {child} |->
            IF m = child THEN child_node
            ELSE IF m = n
                 THEN [t[n] EXCEPT !.child_nodes = DictSet(@, action, child),
                                   !.untried_actions = ListRemove(@, action)]
                 ELSE t[m]]

(* is_win after its assertion: the outcome of identity_of_bot is one point *)
is_win(state, identity_of_bot) == points_values(state)[identity_of_bot] = 2

(* an is_win that answers False where there is no outcome *)
is_win_call_defaulting(state, identity_of_bot) ==
    IF points_values(state) = <<>> THEN "False"
    ELSE IF is_win(state, identity_of_bot) THEN "True" ELSE "False"

(* is_win, lines 128-130: the assertion fails, or a bool is returned *)
is_win_call(state, identity_of_bot) ==
    IF points_values(state) = <<>> THEN "AssertionError"
    ELSE IF is_win(state, identity_of_bot) THEN "True" ELSE "False"

FirstIndex(S) == CHOOSE i \in S : \A j \in S : i <= j

(* a choice that is always the random one *)
heuristic_action_choice_random(state, actions) == Range(actions)

(* a first loop that returns only on a win of the player to move *)
heuristic_first_loop_wins(outcomes, mover) ==
    {i \in DOMAIN outcomes : outcomes[i] # <<>> /\ outcomes[i][mover] = 2}

(* heuristic_action_choice, lines 72-75: the places in legal_actions where
   the first loop returns; outcomes[i] is points_values of the i-th successor *)
heuristic_first_loop(outcomes, mover) ==
    {i \in DOMAIN outcomes : outcomes[i] # <<>>}

(* heuristic_action_choice, lines 77-81: where the second loop returns *)
heuristic_second_loop(outcomes, mover) ==
    {i \in DOMAIN outcomes : outcomes[i] # <<>> /\ outcomes[i][3 - mover] = 2}

(* heuristic_action_choice, lines 72-83: the places in legal_actions of the
   actions it may return *)
heuristic_choice(outcomes, mover) ==
    IF heuristic_first_loop(outcomes, mover) # {}
    THEN {FirstIndex(heuristic_first_loop(outcomes, mover))}
    ELSE IF heuristic_second_loop(outcomes, mover) # {}
    THEN {FirstIndex(heuristic_second_loop(outcomes, mover))}
    ELSE DOMAIN outcomes

(* heuristic_action_choice: the actions it may return *)
heuristic_action_choice(state, actions) ==
    LET outcomes == [i \in DOMAIN actions |-> points_values(next_state(state, actions[i]))]
    IN  {actions[i] : i \in heuristic_choice(outcomes, current_player(state))}

(* a loss counted as -1 *)
Credit_signed(won) == IF won THEN 1 ELSE -1

(* heuristic_action_choice, lines 77-81: the states is_win is called on, which
   the second loop does after the first has returned nothing and only where
   points_values is not None *)
heuristic_is_win_calls(state, actions) ==
    LET ends(i) == points_values(next_state(state, actions[i])) # <<>>
    IN  IF \E i \in DOMAIN actions : ends(i) THEN {}
        ELSE {next_state(state, actions[i]) : i \in {j \in DOMAIN actions : ends(j)}}

(* bool added to a number *)
Credit(won) == IF won THEN 1 ELSE 0

(* a walk that credits wins and counts no visit *)
backpropagate_node_unvisited(t, n, won) ==
    [t EXCEPT ![n].wins = @ + Credit(won)]

(* backpropagate, lines 94-95 *)
backpropagate_node(t, n, won) ==
    [t EXCEPT ![n].visits = @ + 1, ![n].wins = @ + Credit(won)]

(* a walk that stops below the root *)
backpropagate_continues_below_root(t, n) == n # NoNode /\ t[n].parent # NoNode

(* backpropagate, line 93 *)
backpropagate_continues(t, n) == n # NoNode

(* a walk that stays on its node *)
backpropagate_parent_self(t, n) == n

(* backpropagate, line 96 *)
backpropagate_parent(t, n) == t[n].parent

(* a walk that never inverts won *)
backpropagate_flip_never(won) == won

(* backpropagate, line 97 *)
backpropagate_flip(won) == ~won

(* max() without its key: the largest action *)
get_best_action_no_key(t, root_node) ==
    LET items == t[root_node].child_nodes
    IN  items[MaxIndex([i \in DOMAIN items |-> items[i][1]])][1]

(* min() for max(): the key of the first item of the fewest visits *)
get_best_action_fewest_visits(t, root_node) ==
    LET items == t[root_node].child_nodes
    IN  items[MaxIndex([i \in DOMAIN items |-> 0 - t[items[i][2]].visits])][1]

(* get_best_action: the key of the first item of the most visits *)
get_best_action(t, root_node) ==
    LET items == t[root_node].child_nodes
    IN  items[MaxIndex([i \in DOMAIN items |-> t[items[i][2]].visits])][1]

(* ------------------------------ think -------------------------------- *)

VARIABLES
    current_state,  \* think's argument
    time_limit,     \* think's argument
    elapsed,        \* time() - start_time, in ticks
    bot_identity,
    tree,           \* the nodes created so far, by name
    pc,             \* the place think has reached
    node,           \* the node variable of think and of the function running
    state,          \* the state variable of think and of the function running
    won,            \* backpropagate's won
    iters,          \* iterations of the loop completed
    result,         \* what think returned or raised
    bp_pre,         \* the tree when backpropagate was last called
    bp_leaf,        \* the node backpropagate was last called on
    bp_won,         \* the won backpropagate was last called with
    last_choice,    \* the last call of heuristic_action_choice and its result
    credited,       \* <<node, the bot won, credit>> of every wins += won so far
    heuristic_call  \* a call of heuristic_action_choice on a board of any rules

vars == <<current_state, time_limit, elapsed, bot_identity, tree, pc, node, state,
          won, iters, result, bp_pre, bp_leaf, bp_won, last_choice, credited,
          heuristic_call>>

TimeLimits == {0, 1}

NoChoice == [state |-> EmptyBoard, actions |-> <<>>, action |-> NoAction]

NoCall == [outcomes |-> <<>>, mover |-> 0, action |-> NoAction]

NoResult == [kind |-> "none", action |-> NoAction]

Init ==
    /\ current_state \in Positions
    /\ time_limit \in TimeLimits
    /\ elapsed = 0
    /\ bot_identity = 0
    /\ tree = [n \in {} |-> MCTSNode(NoNode, NoAction, <<>>)]
    /\ pc = "think"
    /\ node = NoNode
    /\ state = current_state
    /\ won = FALSE
    /\ iters = 0
    /\ result = NoResult
    /\ bp_pre = tree
    /\ bp_leaf = NoNode
    /\ bp_won = FALSE
    /\ last_choice = NoChoice
    /\ credited = {}
    /\ heuristic_call = NoCall

Raise(exception) ==
    /\ pc' = "raised"
    /\ result' = [kind |-> exception, action |-> NoAction]

(* think, lines 142-145 *)
think_enter ==
    /\ pc = "think"
    /\ bot_identity' = current_player(current_state)
    /\ tree' = [n \in {RootId} |-> MCTSNode(NoNode, NoAction, legal_actions(current_state))]
    /\ pc' = "while"
    /\ UNCHANGED heuristic_call
    /\ UNCHANGED <<current_state, time_limit, elapsed, node, state, won, iters, result,
                   bp_pre, bp_leaf, bp_won, last_choice, credited>>

(* think, lines 146-148: the clock is read; the loop is entered while less than
   time_limit has elapsed, which it has after at most cap iterations *)
think_while_capped(cap) ==
    /\ pc = "while"
    /\ \E now \in elapsed..1 :
          /\ iters >= cap => now >= time_limit
          /\ elapsed' = now
          /\ IF now < time_limit
             THEN /\ state' = current_state
                  /\ node' = RootId
                  /\ pc' = "traverse_nodes"
             ELSE /\ pc' = "get_best_action"
                  /\ UNCHANGED <<node, state>>
    /\ UNCHANGED heuristic_call
    /\ UNCHANGED <<current_state, time_limit, bot_identity, tree, won, iters, result,
                   bp_pre, bp_leaf, bp_won, last_choice, credited>>

think_while == think_while_capped(MaxIter)

(* a descent that counts a visit of the child it selects *)
traverse_nodes_counting_visits ==
    /\ pc = "traverse_nodes"
    /\ IF traverse_continues(tree, node, state) /\ tree[node].child_nodes # <<>>
       THEN /\ node' = select_child(tree, node, current_player(state) # bot_identity)
            /\ state' = next_state(state, tree[node'].parent_action)
            /\ tree' = [tree EXCEPT ![node'].visits = @ + 1]
            /\ pc' = pc
       ELSE /\ pc' = "expand_leaf"
            /\ UNCHANGED <<node, state, tree>>
    /\ UNCHANGED heuristic_call
    /\ UNCHANGED <<current_state, time_limit, elapsed, bot_identity, won, iters,
                   result, bp_pre, bp_leaf, bp_won, last_choice, credited>>

(* traverse_nodes, lines 25-30: one test of the loop, and its body or the return *)
traverse_nodes ==
    /\ pc = "traverse_nodes"
    /\ IF traverse_continues(tree, node, state) /\ tree[node].child_nodes # <<>>
       THEN /\ node' = select_child(tree, node, current_player(state) # bot_identity)
            /\ state' = next_state(state, tree[node'].parent_action)
            /\ pc' = pc
       ELSE /\ pc' = "expand_leaf"
            /\ UNCHANGED <<node, state>>
    /\ UNCHANGED heuristic_call
    /\ UNCHANGED <<current_state, time_limit, elapsed, bot_identity, tree, won, iters,
                   result, bp_pre, bp_leaf, bp_won, last_choice, credited>>

(* think, lines 154-155, and expand_leaf *)
think_expand ==
    /\ pc = "expand_leaf"
    /\ IF is_ended(state)
       THEN /\ pc' = "rollout"
            /\ UNCHANGED <<tree, node, state, result>>
       ELSE IF tree[node].untried_actions = <<>>
       THEN /\ Raise("IndexError")
            /\ UNCHANGED <<tree, node, state>>
       ELSE \E action \in Range(tree[node].untried_actions) :
                /\ tree' = expand_leaf(tree, node, state, action)
                /\ node' = ChildId(node, action)
                /\ state' = next_state(state, action)
                /\ pc' = "rollout"
                /\ UNCHANGED result
    /\ UNCHANGED heuristic_call
    /\ UNCHANGED <<current_state, time_limit, elapsed, bot_identity, won, iters,
                   bp_pre, bp_leaf, bp_won, last_choice, credited>>

(* rollout, lines 63-67: one test of the loop, and its body or the return;
   on the return think, line 161, calls is_win and then backpropagate *)
rollout ==
    /\ pc = "rollout"
    /\ IF ~is_ended(state)
       THEN IF \E s \in heuristic_is_win_calls(state, legal_actions(state)) :
                    is_win_call(s, 3 - current_player(state)) = "AssertionError"
            THEN /\ Raise("AssertionError")
                 /\ UNCHANGED <<state, won, bp_pre, bp_leaf, bp_won, last_choice>>
            ELSE \E action \in heuristic_action_choice(state, legal_actions(state)) :
                    /\ last_choice' = [state |-> state, actions |-> legal_actions(state),
                                       action |-> action]
                    /\ state' = next_state(state, action)
                    /\ pc' = pc
                    /\ UNCHANGED <<won, result, bp_pre, bp_leaf, bp_won>>
       ELSE IF is_win_call(state, bot_identity) = "AssertionError"
       THEN /\ Raise("AssertionError")
            /\ UNCHANGED <<state, won, bp_pre, bp_leaf, bp_won, last_choice>>
       ELSE /\ won' = (is_win_call(state, bot_identity) = "True")
            /\ bp_pre' = tree
            /\ bp_leaf' = node
            /\ bp_won' = won'
            /\ pc' = "backpropagate"
            /\ UNCHANGED <<state, result, last_choice>>
    /\ UNCHANGED heuristic_call
    /\ UNCHANGED <<current_state, time_limit, elapsed, bot_identity, tree, node, iters,
                   credited>>

(* backpropagate, lines 93-97: one test of the loop, and its body or the return *)
backpropagate ==
    /\ pc = "backpropagate"
    /\ IF backpropagate_continues(tree, node)
       THEN /\ tree' = backpropagate_node(tree, node, won)
            /\ node' = backpropagate_parent(tree, node)
            /\ won' = backpropagate_flip(won)
            /\ credited' = credited \cup {<<node, bp_won, Credit(won)>>}
            /\ pc' = pc
            /\ UNCHANGED iters
       ELSE /\ pc' = "while"
            /\ iters' = iters + 1
            /\ UNCHANGED <<tree, node, won, credited>>
    /\ UNCHANGED heuristic_call
    /\ UNCHANGED <<current_state, time_limit, elapsed, bot_identity, state, result,
                   bp_pre, bp_leaf, bp_won, last_choice>>

(* think, lines 164-165: max() raises ValueError on an empty sequence *)
think_return ==
    /\ pc = "get_best_action"
    /\ IF tree[RootId].child_nodes = <<>>
       THEN Raise("ValueError")
       ELSE /\ result' = [kind |-> "returned", action |-> get_best_action(tree, RootId)]
            /\ pc' = "returned"
    /\ UNCHANGED heuristic_call
    /\ UNCHANGED <<current_state, time_limit, elapsed, bot_identity, tree, node, state,
                   won, iters, bp_pre, bp_leaf, bp_won, last_choice, credited>>

Next ==
    \/ think_enter
    \/ think_while
    \/ traverse_nodes
    \/ think_expand
    \/ rollout
    \/ backpropagate
    \/ think_return

Spec == Init /\ [][Next]_vars

(* ------------------------------ claims ------------------------------- *)

Root == tree[RootId]

Nodes == DOMAIN tree

BetweenIterations == pc \in {"while", "get_best_action", "returned", "raised"}

(* the state a node stands for: the parent_actions from the root, applied in
   order to current_state *)
RECURSIVE NodeState(_, _)
NodeState(t, n) ==
    IF t[n].parent = NoNode THEN current_state
    ELSE next_state(NodeState(t, t[n].parent), t[n].parent_action)

(* the parent chain of n: n, its parent, ..., the last node without a parent *)
RECURSIVE Chain(_, _)
Chain(t, n) == IF n = NoNode THEN <<>> ELSE <<n>> \o Chain(t, t[n].parent)

(* C1: once think has completed N >= 1 iterations of its loop, the root's
   visits is exactly N. *)
C1_RootVisitsCountIterations ==
    (BetweenIterations /\ iters >= 1) => Root.visits = iters

C1_Witness ==
    pc = "returned" /\ iters >= 3 /\ Root.visits = iters

(* C2: in every node the keys of child_nodes and the untried_actions are
   disjoint, neither holds an action twice, and together they are the legal
   actions of the node's state. *)
C2_ChildrenAndUntriedPartitionLegal ==
    \A n \in Nodes :
        LET keys == Keys(tree[n].child_nodes)
            untried == Range(tree[n].untried_actions)
        IN  /\ keys \cap untried = {}
            /\ keys \cup untried = Range(legal_actions(NodeState(tree, n)))
            /\ Cardinality(keys) = Len(tree[n].child_nodes)
            /\ Cardinality(untried) = Len(tree[n].untried_actions)

C2_Witness ==
    /\ pc = "while"
    /\ \E n \in Nodes :
          Len(tree[n].child_nodes) >= 2 /\ tree[n].untried_actions = <<>>
    /\ \E n \in Nodes :
          tree[n].child_nodes # <<>> /\ tree[n].untried_actions # <<>>

(* C3: every node has visits >= wins >= 0. *)
C3_VisitsBoundWins ==
    \A n \in Nodes : tree[n].visits >= tree[n].wins /\ tree[n].wins >= 0

C3_Witness ==
    /\ \E n \in Nodes : tree[n].wins >= 2 /\ tree[n].visits > tree[n].wins
    /\ \E n \in Nodes : tree[n].wins = 0 /\ tree[n].visits >= 2

IndexIn(chain, n) == CHOOSE k \in DOMAIN chain : chain[k] = n

(* C4: backpropagate(leaf, won) adds 1 to the visits of every node of the
   parent chain from leaf to the root, adds won to the wins of the nodes an
   even number of plies above leaf and (not won) to those an odd number
   above, and changes no other node. *)
C4_BackpropagateAlternates ==
    (pc = "while" /\ iters >= 1) =>
        LET chain == Chain(bp_pre, bp_leaf)
        IN  /\ chain[Len(chain)] = RootId
            /\ Nodes = DOMAIN bp_pre
            /\ \A n \in Nodes :
                  IF n \in Range(chain)
                  THEN LET k == IndexIn(chain, n) - 1
                           credit == IF k % 2 = 0 THEN bp_won ELSE ~bp_won
                       IN  tree[n] = [bp_pre[n] EXCEPT
                                        !.visits = @ + 1,
                                        !.wins = @ + (IF credit THEN 1 ELSE 0)]
                  ELSE tree[n] = bp_pre[n]

(* the chain root -> child -> grandchild with won = True: +1, +0, +1 *)
C4_Witness ==
    /\ pc = "while" /\ iters >= 1
    /\ bp_won
    /\ Len(Chain(bp_pre, bp_leaf)) = 3
    /\ LET chain == Chain(bp_pre, bp_leaf)
       IN  /\ tree[chain[1]].wins = bp_pre[chain[1]].wins + 1
           /\ tree[chain[2]].wins = bp_pre[chain[2]].wins
           /\ tree[chain[3]].wins = bp_pre[chain[3]].wins + 1
    /\ \E n \in Nodes : n \notin Range(Chain(bp_pre, bp_leaf))

(* C5: think with time_limit = 0 (on a start state that is not terminal)
   completes an iteration before get_best_action is evaluated, never evaluates
   it on a root without children, and does not end in max()'s ValueError. *)
C5_ZeroBudgetDoesNotCrash ==
    (time_limit = 0 /\ ~is_ended(current_state)) =>
        /\ result.kind # "ValueError"
        /\ pc = "get_best_action" => (iters >= 1 /\ Root.child_nodes # <<>>)

(* C6: a node's wins are credited from one fixed perspective: two walks of
   backpropagate through the same node, in iterations with the same outcome
   for the bot, add the same credit to it. *)
C6_OnePerspectivePerNode ==
    \A a, b \in credited : (a[1] = b[1] /\ a[2] = b[2]) => a[3] = b[3]

ChildVisits(item) == tree[item[2]].visits

(* C7: get_best_action returns the action of a child of the most visits, and
   that of the one child of strictly the most visits when there is one. *)
C7_BestActionHasMostVisits ==
    result.kind = "returned" =>
        LET items == Root.child_nodes
        IN  \E i \in DOMAIN items :
                /\ items[i][1] = result.action
                /\ \A j \in DOMAIN items : ChildVisits(items[j]) <= ChildVisits(items[i])
                /\ \A k \in DOMAIN items :
                      (\A j \in DOMAIN items \ {k} :
                            ChildVisits(items[j]) < ChildVisits(items[k])) => k = i

(* the one most visited child is not the first of the dict *)
C7_Witness ==
    /\ result.kind = "returned"
    /\ LET items == Root.child_nodes
       IN  \E i \in DOMAIN items :
               /\ i > 1
               /\ items[i][1] = result.action
               /\ \A j \in DOMAIN items \ {i} :
                     ChildVisits(items[j]) < ChildVisits(items[i])

Permutations(seq) ==
    {[i \in DOMAIN seq |-> seq[f[i]]] :
        f \in {g \in [DOMAIN seq -> DOMAIN seq] :
                  \A i, j \in DOMAIN seq : g[i] = g[j] => i = j}}

WithChildren(t, n, items) == [t EXCEPT ![n].child_nodes = items]

(* C8: ties do not depend on the order of the containers: with the same
   children (action, visits, wins) inserted in another order, traverse_nodes
   picks the same child and get_best_action returns the same action. *)
C8_TiesIndependentOfOrder ==
    /\ (pc = "get_best_action" /\ Root.child_nodes # <<>>) =>
          \A items \in Permutations(Root.child_nodes) :
              get_best_action(WithChildren(tree, RootId, items), RootId)
                = get_best_action(tree, RootId)
    /\ (pc = "traverse_nodes" /\ traverse_continues(tree, node, state)
          /\ tree[node].child_nodes # <<>>) =>
          \A items \in Permutations(tree[node].child_nodes) :
              select_child(WithChildren(tree, node, items), node,
                           current_player(state) # bot_identity)
                = select_child(tree, node, current_player(state) # bot_identity)

TerminalChoices(choice) ==
    {i \in DOMAIN choice.actions : is_ended(next_state(choice.state, choice.actions[i]))}

(* C10: when a legal action leads to a terminal state, heuristic_action_choice
   returns the first such action of legal_actions, and nothing else. *)
C10_FirstTerminalAction ==
    /\ (last_choice # NoChoice /\ TerminalChoices(last_choice) # {}) =>
          /\ last_choice.action \in Range(last_choice.actions)
          /\ \E i \in TerminalChoices(last_choice) :
                /\ last_choice.actions[i] = last_choice.action
                /\ \A j \in TerminalChoices(last_choice) : i <= j
    /\ (pc = "rollout" /\ ~is_ended(state)
          /\ \E a \in Range(legal_actions(state)) : is_ended(next_state(state, a))) =>
          Cardinality(heuristic_action_choice(state, legal_actions(state))) = 1

(* the one legal action wins for the mover, on the first decision of rollout *)
C10_Witness ==
    /\ pc = "rollout"
    /\ last_choice # NoChoice
    /\ Len(last_choice.actions) = 1
    /\ last_choice.action = last_choice.actions[1]
    /\ state = next_state(last_choice.state, last_choice.action)
    /\ last_choice.state = NodeState(tree, node)
    /\ is_win(state, current_player(last_choice.state))

(* ------------------ selection on any child statistics ----------------- *)

(* Bound of the model: the most visits of a child in SelectInit. *)
MaxVisits == 2

Statistics == {st \in [visits : 0..MaxVisits, wins : 0..MaxVisits] : st.wins <= st.visits}

RECURSIVE SumVisits(_, _)
SumVisits(stats, S) ==
    IF S = {} THEN 0
    ELSE LET a == CHOOSE x \in S : TRUE
         IN  stats[a].visits + SumVisits(stats, S \ {a})

(* a fully expanded node of the bot or of its opponent, its children inserted
   in the order of actions and carrying the statistics stats *)
SelectTree(root_state, actions, stats) ==
    [n \in {RootId} \cup {ChildId(RootId, a) : a \in Range(actions)} |->
        IF n = RootId
        THEN [MCTSNode(NoNode, NoAction, <<>>) EXCEPT
                !.child_nodes = [i \in DOMAIN actions |->
                                    <<actions[i], ChildId(RootId, actions[i])>>],
                !.visits = SumVisits(stats, Range(actions))]
        ELSE [MCTSNode(RootId, n[1], legal_actions(next_state(root_state, n[1]))) EXCEPT
                !.visits = stats[n[1]].visits,
                !.wins = stats[n[1]].wins]]

(* traverse_nodes called on a fully expanded node whose children carry any
   statistics *)
SelectInit ==
    /\ current_state \in {s \in Positions : ~is_ended(s)}
    /\ time_limit = 1
    /\ elapsed = 0
    /\ bot_identity \in Players
    /\ \E actions \in Permutations(legal_actions(current_state)) :
          \E stats \in [Range(actions) -> Statistics] :
              tree = SelectTree(current_state, actions, stats)
    /\ pc = "traverse_nodes"
    /\ node = RootId
    /\ state = current_state
    /\ won = FALSE
    /\ iters = 0
    /\ result = NoResult
    /\ bp_pre = tree
    /\ bp_leaf = NoNode
    /\ bp_won = FALSE
    /\ last_choice = NoChoice
    /\ credited = {}
    /\ heuristic_call = NoCall

SelectNext == traverse_nodes

SelectSpec == SelectInit /\ [][SelectNext]_vars

Children == Range(Values(Root.child_nodes))

(* C9: a child with visits = 0 is scored +infinity, no child scores more, and
   when a fully expanded node has a never-visited child the child that
   traverse_nodes descends to has visits = 0. *)
C9_UnvisitedChildIsSelected ==
    /\ \A c \in Children : \A is_opponent \in BOOLEAN :
          tree[c].visits = 0 =>
              /\ ucb(tree, c, is_opponent) = Infinity
              /\ \A d \in Children : ucb(tree, d, is_opponent) <= ucb(tree, c, is_opponent)
    /\ (node # RootId /\ \E c \in Children : tree[c].visits = 0) =>
          tree[node].visits = 0

(* the never-visited child is chosen over an always-winning sibling that
   comes before it *)
C9_Witness ==
    /\ node # RootId
    /\ tree[node].visits = 0
    /\ \E i \in DOMAIN Root.child_nodes :
          /\ Root.child_nodes[i][2] = node
          /\ i > 1
          /\ tree[Root.child_nodes[1][2]].visits = MaxVisits
          /\ tree[Root.child_nodes[1][2]].wins = MaxVisits

(* ---------------- think on a state one move from a win ---------------- *)

(* Bound of the model: think's loop is cut after MaxSearch iterations. *)
MaxSearch == 52

(* the actions that end the game at once with a win for the player to move *)
WinningActions(root_state) ==
    {a \in Range(legal_actions(root_state)) :
        /\ is_ended(next_state(root_state, a))
        /\ is_win(next_state(root_state, a), current_player(root_state))}

WinInit ==
    /\ current_state \in {s \in Positions : ~is_ended(s) /\ WinningActions(s) # {}}
    /\ time_limit = 1
    /\ elapsed = 0
    /\ bot_identity = 0
    /\ tree = [n \in {} |-> MCTSNode(NoNode, NoAction, <<>>)]
    /\ pc = "think"
    /\ node = NoNode
    /\ state = current_state
    /\ won = FALSE
    /\ iters = 0
    /\ result = NoResult
    /\ bp_pre = tree
    /\ bp_leaf = NoNode
    /\ bp_won = FALSE
    /\ last_choice = NoChoice
    /\ credited = {}
    /\ heuristic_call = NoCall

think_while_long == think_while_capped(MaxSearch)

WinNext ==
    \/ think_enter
    \/ think_while_long
    \/ traverse_nodes
    \/ think_expand
    \/ rollout
    \/ backpropagate
    \/ think_return

WinSpec == WinInit /\ [][WinNext]_vars

(* C11 as stated: think returns a, for every action a that wins at once, in
   every execution of at least 50 iterations. *)
C11_ReturnsEveryWinningAction ==
    (result.kind = "returned" /\ iters >= 50) =>
        \A a \in WinningActions(current_state) : result.action = a

(* C11, amended: in every execution of at least 50 iterations from a state
   with an action that wins at once, think returns an action that wins at
   once. *)
C11_ReturnsAWinningAction ==
    (pc \in {"returned", "raised"} /\ iters >= 50) =>
        /\ result.kind = "returned"
        /\ result.action \in WinningActions(current_state)

(* every selection of the search is one the fixed-point scores decide *)
SelectionsDecided ==
    (pc = "traverse_nodes" /\ traverse_continues(tree, node, state)) =>
        ScoresDecided(tree, node, current_player(state) # bot_identity)

C11_Witness ==
    /\ result.kind = "returned"
    /\ iters >= 50
    /\ result.action \in WinningActions(current_state)
    /\ Len(Root.child_nodes) >= 2
    /\ \E n \in Nodes : Len(n) = 2

(* C12: think called on a terminal start state fails with an explicit error:
   it does not run iterations and then reach get_best_action on a root
   without children, and does not end in max()'s ValueError. *)
C12_TerminalStartFailsExplicitly ==
    is_ended(current_state) =>
        /\ ~(iters >= 1 /\ pc = "get_best_action" /\ Root.child_nodes = <<>>)
        /\ ~(iters >= 1 /\ result.kind = "ValueError")

(* C13: traverse_nodes returns a node and the state reached by the
   parent_actions from the root to that node, and the state is terminal, or
   the node has untried actions, or the node has no children. *)
C13_TraverseReturnsNodeAndItsState ==
    /\ pc \in {"traverse_nodes", "expand_leaf"} => state = NodeState(tree, node)
    /\ pc = "expand_leaf" =>
          \/ is_ended(state)
          \/ tree[node].untried_actions # <<>>
          \/ tree[node].child_nodes = <<>>

(* two descents, to a node that can be expanded *)
C13_Witness ==
    /\ pc = "expand_leaf"
    /\ Len(Chain(tree, node)) >= 3
    /\ ~is_ended(state)
    /\ tree[node].untried_actions # <<>>
    /\ state = NodeState(tree, node)

(* the step of think from the return of traverse_nodes to the call of rollout *)
C14_ExpansionStep ==
    (pc = "expand_leaf" /\ pc' = "rollout") =>
        IF is_ended(state)
        THEN tree' = tree /\ node' = node /\ state' = state
        ELSE LET child == node'
                 action == tree'[child].parent_action
             IN  /\ child \notin DOMAIN tree
                 /\ DOMAIN tree' = DOMAIN tree \cup {child}
                 /\ tree'[child].parent = node
                 /\ action \in Range(tree[node].untried_actions)
                 /\ tree'[node].untried_actions = ListRemove(tree[node].untried_actions, action)
                 /\ action \notin Range(tree'[node].untried_actions)
                 /\ tree'[node].child_nodes = Append(tree[node].child_nodes, <<action, child>>)
                 /\ state' = next_state(state, action)
                 /\ tree'[child].untried_actions = legal_actions(state')
                 /\ tree'[child].child_nodes = <<>>
                 /\ tree'[child].visits = 0 /\ tree'[child].wins = 0
                 /\ \A m \in DOMAIN tree \ {node} : tree'[m] = tree[m]
                 /\ tree'[node].visits = tree[node].visits
                 /\ tree'[node].wins = tree[node].wins
                 /\ tree'[node].parent = tree[node].parent
                 /\ tree'[node].parent_action = tree[node].parent_action

(* every other step of an iteration *)
C14_OtherStep ==
    (pc \in {"while", "traverse_nodes", "rollout", "backpropagate"}) =>
        /\ DOMAIN tree' = DOMAIN tree
        /\ \A m \in DOMAIN tree :
              /\ tree'[m].child_nodes = tree[m].child_nodes
              /\ tree'[m].untried_actions = tree[m].untried_actions
        /\ (pc = "rollout" /\ pc' = "backpropagate") => (node' = node /\ bp_leaf' = node)

(* C14: an iteration adds exactly one node when selection ends on a
   non-terminal state and none when it ends on a terminal one, where
   backpropagate starts from the selected node; the new child has the
   selected node as parent, the action removed from its untried_actions as
   parent_action and as key in its child_nodes, and the legal actions of its
   own state as untried_actions; no other child_nodes or untried_actions
   changes. *)
C14_IterationGrowsTreeByOne == [][C14_ExpansionStep /\ C14_OtherStep]_vars

(* a child just added below the root's children, to a node that keeps
   untried actions *)
C14_Witness ==
    /\ pc = "rollout"
    /\ node # RootId
    /\ node \notin DOMAIN bp_pre
    /\ tree[node].visits = 0
    /\ tree[node].parent # RootId
    /\ tree[tree[node].parent].untried_actions # <<>>
    /\ tree[node].untried_actions = legal_actions(NodeState(tree, node))

(* C15: no step of traverse_nodes or of rollout (heuristic_action_choice
   included) changes the tree: no node is added or removed and no field of a
   node is modified. *)
C15_SelectionAndSimulationKeepTree ==
    [][(pc \in {"traverse_nodes", "rollout"}) => tree' = tree]_vars

(* after a descent of traverse_nodes and a choice of rollout *)
C15_Witness ==
    /\ pc = "rollout"
    /\ Len(Chain(tree, node)) >= 3
    /\ last_choice # NoChoice
    /\ state = next_state(last_choice.state, last_choice.action)
    /\ Marks(NodeState(tree, node)) \subseteq Marks(last_choice.state)
    /\ tree[node].visits = 0

(* is_win never returns a value on a state without points_values *)
IsWinFailsFast ==
    \A s \in [Cells -> {0, 1, 2}] : \A p \in Players :
        points_values(s) = <<>> => is_win_call(s, p) = "AssertionError"

(* C16: is_win fails its assertion, returning nothing, on a state without
   points_values; and in think every call of is_win, by think on the state
   rollout returned and by heuristic_action_choice, is on a terminal state,
   so that the assertion never fails. *)
C16_IsWinOnlyOnTerminalStates ==
    /\ IsWinFailsFast
    /\ result.kind # "AssertionError"
    /\ pc = "backpropagate" => is_ended(state)
    /\ (pc = "rollout" /\ ~is_ended(state)) =>
          \A s \in heuristic_is_win_calls(state, legal_actions(state)) : is_ended(s)

(* think has called is_win on the state a rollout of several moves returned *)
C16_Witness ==
    /\ pc = "backpropagate"
    /\ node = bp_leaf
    /\ last_choice # NoChoice
    /\ state = next_state(last_choice.state, last_choice.action)
    /\ Cardinality(Marks(state)) >= Cardinality(Marks(NodeState(tree, bp_leaf))) + 2
    /\ is_win_call(state, bot_identity) = "True"

(* think with a budget above zero, for MaxLive iterations; it is one sequential
   call, which takes its next step whenever it has one *)
MaxLive == 4

LiveInit == Init /\ time_limit = 1

think_while_live == think_while_capped(MaxLive)

LiveNext ==
    \/ think_enter
    \/ think_while_live
    \/ traverse_nodes
    \/ think_expand
    \/ rollout
    \/ backpropagate
    \/ think_return

LiveSpec == LiveInit /\ [][LiveNext]_vars /\ WF_vars(LiveNext)

TreeDepth == CHOOSE d \in 0..BoardCells :
    (\E n \in Nodes : Len(n) = d) /\ (\A n \in Nodes : Len(n) <= d)

(* each pass of the three loops moves towards its exit *)
C17_LoopsAdvance ==
    /\ (pc = "traverse_nodes" /\ pc' = "traverse_nodes") =>
          Len(node') = Len(node) + 1 /\ Len(node') <= TreeDepth
    /\ (pc = "rollout" /\ pc' = "rollout") =>
          /\ ~is_ended(state)
          /\ Cardinality(Marks(state')) = Cardinality(Marks(state)) + 1
    /\ (pc = "backpropagate" /\ pc' = "backpropagate") =>
          Len(Chain(tree', node')) + 1 = Len(Chain(tree, node))

(* C17: every iteration of think runs to completion: traverse_nodes goes one
   level down the tree per pass and returns, rollout adds one mark per pass
   and returns a terminal state, backpropagate goes one node up per pass and
   stops once the parent is absent, after which think is back at its loop. *)
C17_IterationTerminates ==
    /\ [][C17_LoopsAdvance]_vars
    /\ (pc = "traverse_nodes") ~> (pc = "expand_leaf")
    /\ (pc = "rollout") ~> (pc = "backpropagate" /\ is_ended(state))
    /\ (pc = "backpropagate") ~> (pc = "while" /\ node = NoNode)

(* an iteration that descended, played a move and walked back is over *)
C17_Witness ==
    /\ pc = "while"
    /\ node = NoNode
    /\ Len(bp_leaf) >= 2
    /\ last_choice # NoChoice
    /\ Cardinality(Marks(state)) > Cardinality(Marks(NodeState(tree, bp_leaf)))

ChildrenOf(n) == Range(Values(tree[n].child_nodes))

(* C18: between iterations of think on a non-terminal current_state, the
   root's visits is the sum of its children's visits, a node other than the
   root has visits >= 1 and, when its state is not terminal, visits equal to 1
   plus the sum of its children's visits; and whenever traverse_nodes scores
   the children of a node with ucb, the node and each child have visits >= 1,
   so that no score is +infinity and nothing is divided by zero. *)
C18_VisitsConserved ==
    /\ (BetweenIterations /\ ~is_ended(current_state)) =>
          /\ Root.visits = SumVisits(tree, ChildrenOf(RootId))
          /\ \A n \in Nodes \ {RootId} :
                /\ tree[n].visits >= 1
                /\ ~is_ended(NodeState(tree, n)) =>
                      tree[n].visits = 1 + SumVisits(tree, ChildrenOf(n))
    /\ (/\ pc = "traverse_nodes"
        /\ ~is_ended(current_state)
        /\ traverse_continues(tree, node, state)
        /\ tree[node].child_nodes # <<>>) =>
          /\ tree[node].visits >= 1
          /\ \A c \in ChildrenOf(node) :
                /\ tree[c].visits >= 1
                /\ tree[c].parent = node
                /\ \A is_opponent \in BOOLEAN : ucb(tree, c, is_opponent) < Infinity

(* traverse_nodes scores the children of a node below the root, in a tree that
   holds a terminal node visited more than once *)
C18_Witness ==
    /\ pc = "traverse_nodes"
    /\ ~is_ended(current_state)
    /\ node # RootId
    /\ traverse_continues(tree, node, state)
    /\ tree[node].child_nodes # <<>>
    /\ \E n \in Nodes : is_ended(NodeState(tree, n)) /\ tree[n].visits >= 2

(* heuristic_action_choice called on its own, on a board of any rules: what
   points_values answers for the successor of each of up to MaxActions legal
   actions, and the player to move *)
MaxActions == 3

Outcomes == {<<>>, <<2, 0>>, <<0, 2>>, <<1, 1>>}

HeuristicInit ==
    /\ current_state = EmptyBoard
    /\ time_limit = 0
    /\ elapsed = 0
    /\ bot_identity = 0
    /\ tree = [n \in {} |-> MCTSNode(NoNode, NoAction, <<>>)]
    /\ pc = "heuristic_action_choice"
    /\ node = NoNode
    /\ state = current_state
    /\ won = FALSE
    /\ iters = 0
    /\ result = NoResult
    /\ bp_pre = tree
    /\ bp_leaf = NoNode
    /\ bp_won = FALSE
    /\ last_choice = NoChoice
    /\ credited = {}
    /\ \E k \in 1..MaxActions : \E outcomes \in [1..k -> Outcomes] : \E mover \in Players :
          heuristic_call = [outcomes |-> outcomes, mover |-> mover, action |-> NoAction]

(* the call returns the place in legal_actions of the action chosen *)
heuristic_action_choice_call ==
    /\ pc = "heuristic_action_choice"
    /\ \E i \in heuristic_choice(heuristic_call.outcomes, heuristic_call.mover) :
          heuristic_call' = [heuristic_call EXCEPT !.action = i]
    /\ pc' = "returned"
    /\ UNCHANGED <<current_state, time_limit, elapsed, bot_identity, tree, node, state, won,
                   iters, result, bp_pre, bp_leaf, bp_won, last_choice, credited>>

HeuristicNext == heuristic_action_choice_call

HeuristicSpec == HeuristicInit /\ [][HeuristicNext]_vars

(* the places in legal_actions of the actions whose successor is terminal *)
TerminalSuccessors(call) == {i \in DOMAIN call.outcomes : call.outcomes[i] # <<>>}

(* C19: the second loop of heuristic_action_choice never decides: an action
   that meets its condition meets the first loop's, so the second loop finds
   nothing once the first has returned nothing; the function returns the
   first action whose successor is terminal and, when there is none, any of
   the legal actions. *)
C19_SecondLoopNeverDecides ==
    LET outcomes == heuristic_call.outcomes
        mover == heuristic_call.mover
    IN  /\ heuristic_second_loop(outcomes, mover) \subseteq heuristic_first_loop(outcomes, mover)
        /\ heuristic_first_loop(outcomes, mover) = {} =>
              heuristic_second_loop(outcomes, mover) = {}
        /\ pc = "heuristic_action_choice" =>
              heuristic_choice(outcomes, mover) =
                  IF TerminalSuccessors(heuristic_call) # {}
                  THEN {FirstIndex(TerminalSuccessors(heuristic_call))}
                  ELSE DOMAIN outcomes
        /\ heuristic_call.action # NoAction =>
              IF TerminalSuccessors(heuristic_call) # {}
              THEN heuristic_call.action = FirstIndex(TerminalSuccessors(heuristic_call))
              ELSE heuristic_call.action \in DOMAIN outcomes

(* the call returned an earlier action, a draw, than the one that meets the
   second loop's condition, a win of the opponent of the player to move *)
C19_Witness ==
    /\ heuristic_call.action # NoAction
    /\ heuristic_second_loop(heuristic_call.outcomes, heuristic_call.mover) # {}
    /\ heuristic_call.action <
          FirstIndex(heuristic_second_loop(heuristic_call.outcomes, heuristic_call.mover))
    /\ heuristic_call.outcomes[heuristic_call.action] = <<1, 1>>

=============================================================================
